---------------------------- MODULE Spec2Model ----------------------------
(***************************************************************************)
(* A model of the Subpipe subtitle pipeline: the orchestrator of           *)
(* pipeline.py, the video selection and audio extraction entry points,     *)
(* the transcription / translation stages with their accelerator cleanup,  *)
(* translate_segment, and the JSON transcript codec.                       *)
(*                                                                         *)
(* One set of variables serves several specifications; each specification  *)
(* fixes the variables it does not use.                                    *)
(*   Spec        run_pipeline (pipeline.py)                                *)
(*   SpecFiles   select_video_file and extract_audio_from_video called     *)
(*               on their own, against every small file system             *)
(*   SpecSegment translate_segment applied to every short text             *)
(*   SpecJson    save_json_segments followed by load_segments              *)
(*   SpecStage   transcribe and translate called on their own              *)
(*   SpecSrt     save_srt_segments called on its own                       *)
(***************************************************************************)
EXTENDS Integers, Sequences, FiniteSets, TLC

VARIABLES
    config,      \* config.json as loaded at import: a record of the keys read
    files,       \* names of the files that exist
    dirOrder,    \* the video directory's entries, in the order the OS lists them
    pc,          \* position of the running call
    trace,       \* the calls made so far, oldest first
    raised,      \* the exception that left the call (None when none did)
    steps,       \* run_pipeline argument: list of step names
    mode,        \* run_pipeline argument: subtitle mode override
    video_arg,   \* run_pipeline / select_video_file argument
    video_file,  \* the resolved video path
    final_mode,  \* the resolved subtitle mode
    printed,     \* whether "Pipeline completed successfully!" was printed
    text,        \* translate_segment argument: the segment's text
    splitCalls,  \* what split_sentences returned, one entry per call of it
    handed,      \* the sentences given to the translation engine, in order
    result,      \* translate_segment's return value
    segments,    \* the transcript's segments: (start, end, text) triples
    lang,        \* the transcript's language tag
    json_file,   \* the JSON transcript on disk
    loaded,      \* what load_segments returned
    translated,  \* translate's translated_segments list
    srt_file,    \* the SRT file on disk: its entries
    txt_file,    \* the plain-text file on disk
    pending,     \* the exception in flight when a finally block is entered
    src_lang     \* translate's source_lang after mapping

envVars == <<config, files, dirOrder>>
runVars == <<pc, trace, raised>>
pipeVars == <<steps, mode, video_arg, video_file, final_mode, printed>>
segVars == <<text, splitCalls, handed, result>>
\* What the orchestrator and the file entry points never touch.
dataVars == <<segments, lang, json_file, loaded>>
outVars == <<translated, srt_file, txt_file, pending, src_lang>>
textVars == <<segVars, dataVars, outVars>>
vars == <<envVars, runVars, pipeVars, textVars>>

---------------------------------------------------------------------------
(* Values *)

\* Python's None, and a missing config key.
None == "None"
Absent == "Absent"

\* Python truthiness of a str | None value: None and "" are falsy.
Truthy(x) == x # None /\ x # ""

Range(s) == {s[i] : i \in DOMAIN s}

\* The exceptions the model tells apart: the three except clauses of run_pipeline.
Errors == {"FileNotFoundError", "ValueError", "Exception"}
Outcomes == {"ok"} \cup Errors

\* The four stages, in the order run_pipeline tests for them.
StageOrder == <<"extract", "transcribe", "translate", "subtitles">>
StepNames == Range(StageOrder)
\* What a caller may put in the list: the four names and an unrecognised one.
StepWords == StepNames \cup {"bogus"}

\* Longest list of step names the model passes to run_pipeline.
MaxSteps == 4
StepLists == UNION {[1..n -> StepWords] : n \in 0..MaxSteps}

ModeArgs == {None, "", "soft", "burned", "bogus"}
ConfigModes == {Absent, "soft", "bogus"}

---------------------------------------------------------------------------
(* The file system and select_video_file *)

FileNames == {"a.mp4", "b.mp4", "c.mkv"}
\* Path.glob("*.mp4")
IsMp4(n) == n \in {"a.mp4", "b.mp4"}

\* A path: relative to the working directory, or absolute.  A str | None
\* path argument that is None or "" carries that value as its name.
RelPath(n) == [abs |-> FALSE, name |-> n]
AbsPath(n) == [abs |-> TRUE, name |-> n]
NoPath == RelPath(None)
EmptyPath == RelPath("")
\* Python truthiness of a str | None path argument.
PathGiven(p) == Truthy(p.name)
\* Path.resolve().as_posix(): the absolute path of the same file.
Resolve(p) == [abs |-> TRUE, name |-> p.name]
\* Path.exists() / os.path.exists()
Exists(p) == p.name \in files

\* list(Path(paths["video_dir"]).glob("*.mp4")): the matching entries, in
\* the order the directory lists them.
GlobMp4 ==
    LET match == SelectSeq(dirOrder, IsMp4)
    IN  [i \in DOMAIN match |-> RelPath(match[i])]

Ok(v) == [err |-> None, value |-> v]
Err(e) == [err |-> e, value |-> NoPath]

\* Mutant of select_video_file: an explicit path that does not exist falls
\* back to the directory.
select_video_file_fallback(arg) ==
    IF PathGiven(arg) /\ Exists(Resolve(arg))
    THEN Ok(Resolve(arg))
    ELSE IF GlobMp4 = <<>>
         THEN Err("FileNotFoundError")
         ELSE Ok(Resolve(GlobMp4[1]))

\* Mutant of select_video_file: when there is no video, no path is returned
\* in place of the error.
select_video_file_lenient(arg) ==
    IF PathGiven(arg)
    THEN IF ~Exists(Resolve(arg)) THEN Ok(NoPath) ELSE Ok(Resolve(arg))
    ELSE IF GlobMp4 = <<>> THEN Ok(NoPath) ELSE Ok(Resolve(GlobMp4[1]))

\* select_video_file(video_arg): the path returned, or the error raised.
select_video_file(arg) ==
    IF PathGiven(arg)
    THEN IF ~Exists(Resolve(arg))
         THEN Err("FileNotFoundError")
         ELSE Ok(Resolve(arg))
    ELSE LET video_files == GlobMp4
         IN  IF video_files = <<>>
             THEN Err("FileNotFoundError")
             ELSE Ok(Resolve(video_files[1]))

\* An entry of the trace: what happened, to which stage, backend or embedder,
\* and the error (None when there is none).
Event(kind, what, err) == <<kind, what, err>>

---------------------------------------------------------------------------
(* mp3extractor.py: extract_audio_from_video *)

\* paths['audio_dir'] / paths['audio_file']
AudioFile == "audio.mp3"

\* Mutant of extract_audio_from_video: the existence test is missing, so the
\* backend is started on the missing video.
extract_audio_unchecked(v, backendOut, leavesFile) ==
    LET backend == IF config.use_ffmpeg THEN "ffmpeg" ELSE "moviepy"
    IN  [events |-> <<Event("backend", backend, None)>>,
         out |-> IF Exists(v) THEN backendOut ELSE "Exception",
         files |-> IF (Exists(v) /\ backendOut = "ok") \/ leavesFile
                   THEN files \cup {AudioFile} ELSE files]

\* extract_audio_from_video(video_file, output_audio): the backend calls it
\* makes, its outcome and the files that exist afterwards.  backendOut is
\* what the backend does when it is started; leavesFile says whether a
\* backend that fails has already written (part of) the output.
extract_audio_from_video(v, backendOut, leavesFile) ==
    IF ~Exists(v)
    THEN [events |-> <<>>, out |-> "FileNotFoundError", files |-> files]
    ELSE LET backend == IF config.use_ffmpeg THEN "ffmpeg" ELSE "moviepy"
         IN  [events |-> <<Event("backend", backend, None)>>,
              out |-> backendOut,
              files |-> IF backendOut = "ok" \/ leavesFile
                        THEN files \cup {AudioFile} ELSE files]

---------------------------------------------------------------------------
(* pipeline.py: the stage wrappers and run_pipeline *)

\* subtitles.get('mode', 'burned')
ConfiguredMode == IF config.mode = Absent THEN "burned" ELSE config.mode

\* Mutant of ResolveMode: the configured mode wins over the override.
ResolveModeConfigFirst(m) == IF config.mode # Absent THEN config.mode ELSE m

\* final_mode = mode or subtitles.get('mode', 'burned')
ResolveMode(m) == IF Truthy(m) THEN m ELSE ConfiguredMode

\* A try / except Exception: log; raise wrapper around one stage body whose
\* outcome is out: the stage begins, then returns or raises the same error.
StageEvents(stage, inner, out) ==
    <<Event("begin", stage, None)>> \o inner
        \o <<IF out = "ok" THEN Event("end", stage, None)
                           ELSE Event("fail", stage, out)>>

\* step_subtitles: the events and the outcome for a mode, given what the
\* embedder that is called does.
SubtitleCall(m, embedOut) ==
    IF m = "soft"
    THEN [events |-> <<Event("embed", "soft", None)>>, out |-> embedOut]
    ELSE IF m = "burned"
         THEN [events |-> <<Event("embed", "burned", None)>>, out |-> embedOut]
         ELSE [events |-> <<>>, out |-> "ValueError"]

\* The position after stage number i of StageOrder returned.
After(i) == IF i < Len(StageOrder) THEN StageOrder[i + 1] ELSE "finish"

\* Mutant of Selected: only the first requested name is looked at.
SelectedFirst(stage) == steps # <<>> /\ steps[1] = stage

\* if "<stage>" in steps: whether run_pipeline calls the stage.
Selected(stage) == stage \in Range(steps)

\* The video arguments the orchestrator is called with.
PipelineVideoArgs == {NoPath, RelPath("a.mp4")}

\* run_pipeline(steps, mode, video_arg) is entered.
Call ==
    /\ pc = "idle"
    /\ \E s \in StepLists, m \in ModeArgs, v \in PipelineVideoArgs :
          /\ steps' = s
          /\ mode' = m
          /\ video_arg' = v
    /\ pc' = "select"
    /\ UNCHANGED <<envVars, trace, raised, video_file, final_mode, printed>>
    /\ UNCHANGED textVars

\* Mutant of Raise: the error is logged and the run carries on to its end.
RaiseSwallowed(e) ==
    /\ pc' = "finish"
    /\ raised' = raised

\* The except clauses of run_pipeline (FileNotFoundError, ValueError,
\* Exception): each logs, prints and re-raises the error it caught.
Raise(e) ==
    /\ pc' = "raised"
    /\ raised' = CASE e = "FileNotFoundError" -> e
                  [] e = "ValueError" -> e
                  [] OTHER -> e

\* Mutant of SelectVideo: the mode is validated as soon as it is resolved.
SelectVideoValidating ==
    /\ pc = "select"
    /\ LET r == select_video_file(video_arg)
       IN  IF r.err # None
           THEN /\ Raise(r.err)
                /\ UNCHANGED <<video_file, final_mode>>
           ELSE /\ video_file' = r.value
                /\ final_mode' = ResolveMode(mode)
                /\ IF ResolveMode(mode) \in {"soft", "burned"}
                   THEN pc' = StageOrder[1] /\ UNCHANGED raised
                   ELSE Raise("ValueError")
    /\ UNCHANGED <<envVars, trace, steps, mode, video_arg, printed>>
    /\ UNCHANGED textVars

\* video_file = select_video_file(video_arg) ... final_mode = mode or ...
SelectVideo ==
    /\ pc = "select"
    /\ LET r == select_video_file(video_arg)
       IN  IF r.err # None
           THEN /\ Raise(r.err)
                /\ UNCHANGED <<video_file, final_mode>>
           ELSE /\ video_file' = r.value
                /\ final_mode' = ResolveMode(mode)
                /\ pc' = StageOrder[1]
                /\ UNCHANGED raised
    /\ UNCHANGED <<envVars, trace, steps, mode, video_arg, printed>>
    /\ UNCHANGED textVars

\* if "extract" in steps: step_extract_audio(video_file, output_audio)
StepExtract ==
    /\ pc = "extract"
    /\ IF Selected("extract")
       THEN \E backendOut \in Outcomes, leavesFile \in BOOLEAN :
               LET c == extract_audio_from_video(video_file, backendOut,
                                                 leavesFile)
               IN  /\ backendOut = "ok" => ~leavesFile
                   /\ trace' = trace \o StageEvents("extract", c.events, c.out)
                   /\ files' = c.files
                   /\ IF c.out = "ok"
                      THEN pc' = After(1) /\ UNCHANGED raised
                      ELSE Raise(c.out)
       ELSE /\ pc' = After(1)
            /\ UNCHANGED <<trace, raised, files>>
    /\ UNCHANGED <<config, dirOrder, pipeVars>>
    /\ UNCHANGED textVars

\* One "if <stage> in steps: step_<stage>(...)" statement of run_pipeline,
\* for the two stages whose body is a model call.
RunStage(i) ==
    LET stage == StageOrder[i]
    IN  /\ pc = stage
        /\ IF Selected(stage)
           THEN \E out \in Outcomes :
                   /\ trace' = trace \o StageEvents(stage, <<>>, out)
                   /\ IF out = "ok"
                      THEN pc' = After(i) /\ UNCHANGED raised
                      ELSE Raise(out)
           ELSE /\ pc' = After(i)
                /\ UNCHANGED <<trace, raised>>
        /\ UNCHANGED <<envVars, pipeVars>>
        /\ UNCHANGED textVars

StepTranscribe == RunStage(2)
StepTranslate == RunStage(3)

\* if "subtitles" in steps: step_subtitles(..., final_mode)
StepSubtitles ==
    /\ pc = "subtitles"
    /\ IF Selected("subtitles")
       THEN \E embedOut \in Outcomes :
               LET c == SubtitleCall(final_mode, embedOut)
               IN  /\ trace' = trace \o StageEvents("subtitles", c.events, c.out)
                   /\ IF c.out = "ok"
                      THEN pc' = After(4) /\ UNCHANGED raised
                      ELSE Raise(c.out)
       ELSE /\ pc' = After(4)
            /\ UNCHANGED <<trace, raised>>
    /\ UNCHANGED <<envVars, pipeVars>>
    /\ UNCHANGED textVars

\* Mutant of Finish: success is reported only when some stage was invoked.
FinishWhenStagesRan ==
    /\ pc = "finish"
    /\ printed' = (trace # <<>>)
    /\ pc' = "returned"
    /\ UNCHANGED <<envVars, trace, raised, steps, mode, video_arg,
                   video_file, final_mode>>
    /\ UNCHANGED textVars

\* print("Pipeline completed successfully!")
Finish ==
    /\ pc = "finish"
    /\ printed' = TRUE
    /\ pc' = "returned"
    /\ UNCHANGED <<envVars, trace, raised, steps, mode, video_arg,
                   video_file, final_mode>>
    /\ UNCHANGED textVars

\* The directory listings the orchestrator is run against.
PipelineDirs == {<<>>, <<"a.mp4">>}

\* No call has been made yet.
RunIdle == pc = "idle" /\ trace = <<>> /\ raised = None
PipeIdle ==
    /\ steps = <<>>
    /\ mode = None
    /\ video_arg = NoPath
    /\ video_file = NoPath
    /\ final_mode = None
    /\ printed = FALSE

SegIdle ==
    /\ text = <<>>
    /\ splitCalls = <<>>
    /\ handed = <<>>
    /\ result = <<>>
\* A file: whether it exists, and its characters.
NoFile == [exists |-> FALSE, data |-> <<>>]
FileOf(chars) == [exists |-> TRUE, data |-> chars]
NotLoaded == [err |-> None, segments |-> <<>>, lang |-> <<>>]
DataIdle ==
    /\ segments = <<>>
    /\ lang = <<>>
    /\ json_file = NoFile
    /\ loaded = NotLoaded
OutIdle ==
    /\ translated = <<>>
    /\ srt_file = NoFile
    /\ txt_file = NoFile
    /\ pending = None
    /\ src_lang = <<>>
TextIdle == SegIdle /\ DataIdle /\ OutIdle

\* The configurations the orchestrator is run under.
PipelineConfigs == {[mode |-> m, use_ffmpeg |-> FALSE] : m \in ConfigModes}

Init ==
    /\ config \in PipelineConfigs
    /\ dirOrder \in PipelineDirs
    /\ files = Range(dirOrder)
    /\ RunIdle
    /\ PipeIdle
    /\ TextIdle

Next ==
    \/ Call
    \/ SelectVideo
    \/ StepExtract
    \/ StepTranscribe
    \/ StepTranslate
    \/ StepSubtitles
    \/ Finish

Spec == Init /\ [][Next]_vars

---------------------------------------------------------------------------
(* select_video_file and extract_audio_from_video called on their own *)

\* Every order in which a directory can list the entries in S.
Orders(S) ==
    {f \in [1..Cardinality(S) -> S] : \A i, j \in DOMAIN f : f[i] = f[j] => i = j}
DirListings == UNION {Orders(S) : S \in SUBSET FileNames}

\* The arguments select_video_file is called with: None, the empty string,
\* and a relative and an absolute path to each name.
SelectArgs ==
    {NoPath, EmptyPath} \cup {RelPath(n) : n \in FileNames}
        \cup {AbsPath(n) : n \in FileNames}
ExtractArgs == {RelPath(n) : n \in FileNames} \cup {AbsPath(n) : n \in FileNames}

FilesConfigs == {[mode |-> Absent, use_ffmpeg |-> b] : b \in BOOLEAN}

InitFiles ==
    /\ config \in FilesConfigs
    /\ dirOrder \in DirListings
    /\ files \in {Range(dirOrder), Range(dirOrder) \cup {AudioFile}}
    /\ RunIdle
    /\ PipeIdle
    /\ TextIdle

\* select_video_file(video_arg), from call to return or raise.
SelectVideoFileCall ==
    /\ pc = "idle"
    /\ \E arg \in SelectArgs :
          LET r == select_video_file(arg)
          IN  /\ video_arg' = arg
              /\ video_file' = r.value
              /\ raised' = r.err
    /\ pc' = "selected"
    /\ UNCHANGED <<envVars, trace, steps, mode, final_mode, printed>>
    /\ UNCHANGED textVars

\* extract_audio_from_video(video_file, output_audio), from call to return
\* or raise.
ExtractAudioCall ==
    /\ pc = "idle"
    /\ \E v \in ExtractArgs, backendOut \in Outcomes, leavesFile \in BOOLEAN :
          LET c == extract_audio_from_video(v, backendOut, leavesFile)
          IN  /\ backendOut = "ok" => ~leavesFile
              /\ video_file' = v
              /\ trace' = trace \o c.events
              /\ files' = c.files
              /\ raised' = IF c.out = "ok" THEN None ELSE c.out
    /\ pc' = "extracted"
    /\ UNCHANGED <<config, dirOrder, steps, mode, video_arg, final_mode, printed>>
    /\ UNCHANGED textVars

NextFiles ==
    \/ SelectVideoFileCall
    \/ ExtractAudioCall

SpecFiles == InitFiles /\ [][NextFiles]_vars

---------------------------------------------------------------------------
(* Claims about run_pipeline, checked under Spec *)

\* The place of a stage in the documented order.
StageRank(stage) ==
    CASE stage = "extract" -> 1
      [] stage = "transcribe" -> 2
      [] stage = "translate" -> 3
      [] stage = "subtitles" -> 4

\* How far run_pipeline has got: the stages of lower rank are behind it.
PcRank ==
    CASE pc \in {"idle", "select", "raised"} -> 0
      [] pc \in {"finish", "returned"} -> 5
      [] OTHER -> StageRank(pc)

Begins(stage) == {i \in DOMAIN trace : trace[i] = <<"begin", stage, None>>}
Ends(stage) == {i \in DOMAIN trace : trace[i] = <<"end", stage, None>>}
Fails == {i \in DOMAIN trace : trace[i][1] = "fail"}
Embeds(which) == {i \in DOMAIN trace : trace[i] = <<"embed", which, None>>}
Requested == {"extract", "transcribe", "translate", "subtitles"} \cap Range(steps)

\* C1: whatever list of step names is requested (any order, repeats,
\* unrecognised names), the stages that run_pipeline invokes are requested
\* ones, each begins at most once, they begin in the order extract,
\* transcribe, translate, subtitles, a stage begins only after every stage
\* begun before it has returned, and every requested stage that run_pipeline
\* has got past has been invoked and has returned.
C1_FixedOrder ==
    /\ \A i \in DOMAIN trace :
          trace[i][1] = "begin" => trace[i][2] \in Requested
    /\ \A i, j \in DOMAIN trace :
          (i < j /\ trace[i][1] = "begin" /\ trace[j][1] = "begin")
             => /\ StageRank(trace[i][2]) < StageRank(trace[j][2])
                /\ \E k \in DOMAIN trace :
                      i < k /\ k < j /\ trace[k] = <<"end", trace[i][2], None>>
    /\ \A stage \in Requested :
          StageRank(stage) < PcRank
             => \E i \in Begins(stage) : \E k \in Ends(stage) : i < k

\* C1 witness: a four-name list in reverse order with a repeat and without
\* transcribe has run to its end, and three stages were invoked.
C1_Witness ==
    /\ pc = "returned"
    /\ steps = <<"subtitles", "translate", "extract", "extract">>
    /\ Begins("extract") # {} /\ Begins("translate") # {}
    /\ Begins("subtitles") # {} /\ Begins("transcribe") = {}

\* C2: once a stage has failed, its failure is the last entry of the trace
\* (no later stage is invoked), the stage was begun exactly once (no retry),
\* the success message is not printed, and run_pipeline has raised the very
\* error the stage failed with.
C2_FailureAborts ==
    \A i \in Fails :
        /\ i = Len(trace)
        /\ Cardinality(Begins(trace[i][2])) = 1
        /\ ~printed
        /\ pc = "raised"
        /\ raised = trace[i][3]

\* C2 witness: transcribe failed with ValueError after extract returned, with
\* translate and subtitles still requested.
C2_Witness ==
    /\ Requested = {"extract", "transcribe", "translate", "subtitles"}
    /\ Ends("extract") # {}
    /\ trace[Len(trace)] = <<"fail", "transcribe", "ValueError">>
    /\ raised = "ValueError"

\* The mode the subtitles stage must use: the override when it is given
\* (neither None nor the empty string), else the configured mode, which is
\* 'burned' when config.json has no subtitles.mode.
C3_ExpectedMode ==
    IF mode \notin {None, ""} THEN mode
    ELSE IF config.mode = Absent THEN "burned" ELSE config.mode

\* C3: when the subtitles stage has been invoked, mode 'soft' called the soft
\* embedder and not the burned one, mode 'burned' called the burned embedder
\* and not the soft one, and any other mode called neither and left
\* run_pipeline with a ValueError.
C3_ModeSelectsEmbedder ==
    Begins("subtitles") # {} =>
        CASE C3_ExpectedMode = "soft" ->
                Cardinality(Embeds("soft")) = 1 /\ Embeds("burned") = {}
          [] C3_ExpectedMode = "burned" ->
                Cardinality(Embeds("burned")) = 1 /\ Embeds("soft") = {}
          [] OTHER ->
                /\ Embeds("soft") = {} /\ Embeds("burned") = {}
                /\ pc = "raised" /\ raised = "ValueError"

\* C3 witness: the override 'burned' beat the configured 'soft'.
C3_Witness ==
    /\ mode = "burned" /\ config.mode = "soft"
    /\ Embeds("burned") # {}
    /\ pc = "returned"

---------------------------------------------------------------------------
(* Claims about select_video_file and extract_audio_from_video, checked
   under SpecFiles *)

\* The first MP4 entry of the directory listing, as an absolute path.
C4_FirstMp4 ==
    LET at == {i \in DOMAIN dirOrder : IsMp4(dirOrder[i])}
        first == CHOOSE i \in at : \A j \in at : i <= j
    IN  [abs |-> TRUE, name |-> dirOrder[first]]

\* C4: select_video_file returns the explicit path (made absolute) when one
\* is given and exists; raises FileNotFoundError when the explicit path does
\* not exist, whatever the directory holds; with no explicit path (None or
\* the empty string) returns the first MP4 entry of the directory listing, and
\* raises FileNotFoundError when the listing has no MP4 entry.
C4_SelectVideo ==
    pc = "selected" =>
        IF video_arg.name \notin {None, ""}
        THEN IF video_arg.name \in files
             THEN raised = None
                  /\ video_file = [abs |-> TRUE, name |-> video_arg.name]
             ELSE raised = "FileNotFoundError" /\ video_file = NoPath
        ELSE IF \E i \in DOMAIN dirOrder : IsMp4(dirOrder[i])
             THEN raised = None /\ video_file = C4_FirstMp4
             ELSE raised = "FileNotFoundError" /\ video_file = NoPath

\* C4 witness: an explicit path that does not exist was refused although the
\* directory lists two MP4 files.
C4_Witness ==
    /\ pc = "selected"
    /\ video_arg = RelPath("a.mp4")
    /\ dirOrder = <<"c.mkv", "b.mp4">>
    /\ "a.mp4" \notin files
    /\ raised = "FileNotFoundError"

\* C6: a call of extract_audio_from_video with a video path that does not
\* exist raises FileNotFoundError, starts no backend and changes no file.
C6_MissingVideo ==
    [][(pc = "idle" /\ pc' = "extracted" /\ video_file'.name \notin files)
          => /\ raised' = "FileNotFoundError"
             /\ trace' = trace
             /\ files' = files]_vars

\* C6 witness: the call was made for a missing video while no audio file
\* existed, and none exists afterwards.
C6_Witness ==
    /\ pc = "extracted"
    /\ video_file = RelPath("a.mp4")
    /\ "a.mp4" \notin files
    /\ AudioFile \notin files
    /\ raised = "FileNotFoundError"

---------------------------------------------------------------------------
(* translate_only.py: split_sentences and translate_segment *)

\* A text is a sequence of characters.  One character of each class the
\* code tells apart: white space, a lower-case letter, a capital, a full stop.
Chars == {" ", "a", "A", "."}
IsSpace(c) == c = " "
IsUpper(c) == c = "A"
IsLower(c) == c = "a"
\* \w of the regular expression
IsWord(c) == c \in {"a", "A"}
\* \.|\?|\!
IsStop(c) == c = "."

\* Longest text the model passes to translate_segment.
MaxTextLen == 5
Texts == UNION {[1..n -> Chars] : n \in 0..MaxTextLen}

\* len(text.strip()) < 3
MinTextLen == 3

SetMin(S) == CHOOSE x \in S : \A y \in S : x <= y
SetMax(S) == CHOOSE x \in S : \A y \in S : x >= y

\* str.strip(), str.rstrip()
Strip(t) ==
    LET ink == {i \in DOMAIN t : ~IsSpace(t[i])}
    IN  IF ink = {} THEN <<>> ELSE SubSeq(t, SetMin(ink), SetMax(ink))
RStrip(t) ==
    LET ink == {i \in DOMAIN t : ~IsSpace(t[i])}
    IN  IF ink = {} THEN <<>> ELSE SubSeq(t, 1, SetMax(ink))

\* s[:n] for n >= 0, on a string or on a list
Prefix(s, n) == SubSeq(s, 1, IF n < Len(s) THEN n ELSE Len(s))

\* The pieces of t between the positions in cuts, from position from on; the
\* characters at the cuts belong to no piece (re.split).
RECURSIVE PiecesFrom(_, _, _)
PiecesFrom(t, cuts, from) ==
    LET later == {c \in cuts : c >= from}
    IN  IF later = {}
        THEN <<SubSeq(t, from, Len(t))>>
        ELSE <<SubSeq(t, from, SetMin(later) - 1)>>
                 \o PiecesFrom(t, cuts, SetMin(later) + 1)

NonEmpty(x) == x # <<>>

\* Where the regular expression
\*   (?<!\w\.\w.)(?<![A-Z][a-z]\.)(?<=\.|\?|\!)\s(?=[A-Z])
\* matches: a white-space character after a stop and before a capital, unless
\* what precedes it reads <word char>.<word char><any> or <capital><lower>. .
RegexCuts(t) ==
    {i \in DOMAIN t :
        /\ IsSpace(t[i])
        /\ i > 1 /\ IsStop(t[i - 1])
        /\ i < Len(t) /\ IsUpper(t[i + 1])
        /\ ~(i > 4 /\ IsWord(t[i - 4]) /\ IsStop(t[i - 3]) /\ IsWord(t[i - 2]))
        /\ ~(i > 3 /\ IsUpper(t[i - 3]) /\ IsLower(t[i - 2]) /\ IsStop(t[i - 1]))}

\* The regex branch of split_sentences: split, strip each piece, drop the
\* empty ones.
RegexSplit(t) ==
    LET pieces == PiecesFrom(t, RegexCuts(t), 1)
    IN  SelectSeq([i \in DOMAIN pieces |-> Strip(pieces[i])], NonEmpty)

\* The NLTK branch: sent_tokenize breaks the text at white space that
\* follows a stop, at those of these places its trained model takes for a
\* sentence end (any subset of them here); the white space between two
\* sentences and after the last one is dropped, the white space before the
\* first one is kept.
NltkCandidates(t) == {i \in DOMAIN t : IsSpace(t[i]) /\ i > 1 /\ IsStop(t[i - 1])}
NltkSplit(t, cuts) ==
    LET pieces == PiecesFrom(t, cuts, 1)
        trimmed == [i \in DOMAIN pieces |->
                       IF i = 1 THEN RStrip(pieces[i]) ELSE Strip(pieces[i])]
    IN  SelectSeq(trimmed, NonEmpty)

\* split_sentences(text): the lists it may return.
split_sentences(t) ==
    IF config.use_regex_splitter
    THEN {RegexSplit(t)}
    ELSE {NltkSplit(t, cuts) : cuts \in SUBSET NltkCandidates(t)}

\* The translation engine on one sentence (tokenizer, model.generate,
\* tokenizer.decode): a function of the sentence, here the sentence between
\* two marks.
Engine(sentence) == <<"<">> \o sentence \o <<">">>

\* " ".join(parts)
RECURSIVE Join(_)
Join(parts) ==
    IF parts = <<>> THEN <<>>
    ELSE IF Len(parts) = 1 THEN parts[1]
    ELSE parts[1] \o <<" ">> \o Join(Tail(parts))

\* Mutant of translate_segment: the length test is made on the untrimmed text.
translate_segment_untrimmed(t, sp, failAt) ==
    IF t = <<>> \/ Len(t) < MinTextLen
    THEN [splits |-> <<>>, handed |-> <<>>, out |-> "ok", result |-> <<>>]
    ELSE LET sentences ==
                 IF Len(t) > config.max_line_length
                 THEN Prefix([i \in DOMAIN sp |->
                                 Prefix(sp[i], config.max_line_length)],
                             config.max_lines)
                 ELSE Prefix(sp, config.max_lines)
         IN  IF failAt \in DOMAIN sentences
             THEN [splits |-> <<sp>>, handed |-> Prefix(sentences, failAt),
                   out |-> "Exception", result |-> <<>>]
             ELSE [splits |-> <<sp>>, handed |-> sentences, out |-> "ok",
                   result |-> Join([i \in DOMAIN sentences |->
                                       Engine(sentences[i])])]

\* Mutant of translate_segment: sentences are truncated, but the list is
\* capped only when the text is short.
translate_segment_uncapped(t, sp, failAt) ==
    IF t = <<>> \/ Len(Strip(t)) < MinTextLen
    THEN [splits |-> <<>>, handed |-> <<>>, out |-> "ok", result |-> <<>>]
    ELSE LET sentences ==
                 IF Len(t) > config.max_line_length
                 THEN [i \in DOMAIN sp |-> Prefix(sp[i], config.max_line_length)]
                 ELSE Prefix(sp, config.max_lines)
         IN  IF failAt \in DOMAIN sentences
             THEN [splits |-> <<sp>>, handed |-> Prefix(sentences, failAt),
                   out |-> "Exception", result |-> <<>>]
             ELSE [splits |-> <<sp>>, handed |-> sentences, out |-> "ok",
                   result |-> Join([i \in DOMAIN sentences |->
                                       Engine(sentences[i])])]

\* translate_segment(text, ...), given what split_sentences returns (sp) and
\* the number of the sentence at which the engine raises (failAt; 0 or a
\* number past the list when it does not).  The record holds the splitter's
\* results, the sentences given to the engine, the outcome and the value
\* returned.
translate_segment(t, sp, failAt) ==
    IF t = <<>> \/ Len(Strip(t)) < MinTextLen
    THEN [splits |-> <<>>, handed |-> <<>>, out |-> "ok", result |-> <<>>]
    ELSE LET sentences ==
                 IF Len(t) > config.max_line_length
                 THEN Prefix([i \in DOMAIN sp |->
                                 Prefix(sp[i], config.max_line_length)],
                             config.max_lines)
                 ELSE Prefix(sp, config.max_lines)
         IN  IF failAt \in DOMAIN sentences
             THEN [splits |-> <<sp>>, handed |-> Prefix(sentences, failAt),
                   out |-> "Exception", result |-> <<>>]
             ELSE [splits |-> <<sp>>, handed |-> sentences, out |-> "ok",
                   result |-> Join([i \in DOMAIN sentences |->
                                       Engine(sentences[i])])]

\* The limits of config.json the model runs translate_segment under.
MaxLineLength == 3
MaxLines == 2
SegmentConfigs ==
    {[max_line_length |-> l, max_lines |-> n, use_regex_splitter |-> b] :
        l \in 1..MaxLineLength, n \in 1..MaxLines, b \in BOOLEAN}

InitSegment ==
    /\ config \in SegmentConfigs
    /\ files = {}
    /\ dirOrder = <<>>
    /\ RunIdle
    /\ PipeIdle
    /\ text \in Texts
    /\ splitCalls = <<>>
    /\ handed = <<>>
    /\ result = <<>>
    /\ DataIdle
    /\ OutIdle

\* translate_segment(text, ...), from call to return or raise.
TranslateSegmentCall ==
    /\ pc = "idle"
    /\ \E sp \in split_sentences(text), failAt \in 0..MaxLines :
          LET r == translate_segment(text, sp, failAt)
          IN  /\ splitCalls' = r.splits
              /\ handed' = r.handed
              /\ result' = r.result
              /\ raised' = IF r.out = "ok" THEN None ELSE r.out
    /\ pc' = "segment_done"
    /\ UNCHANGED <<envVars, trace, pipeVars, text, dataVars, outVars>>

NextSegment == TranslateSegmentCall

SpecSegment == InitSegment /\ [][NextSegment]_vars

---------------------------------------------------------------------------
(* Claims about translate_segment, checked under SpecSegment *)

\* C8: whenever translate_segment consulted the splitter, the sentences it
\* gave to the engine are at most max_lines; when the text is longer than
\* max_line_length, the i-th of them is the first max_line_length characters
\* of the i-th split sentence; otherwise it is the i-th split sentence
\* itself; and unless the engine raised, all of the first max_lines split
\* sentences were given.
C8_TruncateAndCap ==
    (pc = "segment_done" /\ splitCalls # <<>>) =>
        LET sp == splitCalls[1]
            cap == IF Len(sp) < config.max_lines THEN Len(sp)
                   ELSE config.max_lines
        IN  /\ Len(splitCalls) = 1
            /\ Len(handed) <= config.max_lines
            /\ Len(handed) <= Len(sp)
            /\ raised = None => Len(handed) = cap
            /\ \A i \in DOMAIN handed :
                  IF Len(text) > config.max_line_length
                  THEN /\ Len(handed[i]) <= config.max_line_length
                       /\ handed[i] = [k \in 1..Len(handed[i]) |-> sp[i][k]]
                       /\ \/ Len(handed[i]) = config.max_line_length
                          \/ Len(handed[i]) = Len(sp[i])
                  ELSE handed[i] = sp[i]

\* C8 witness: a five-character text of two sentences under
\* max_line_length 1 and max_lines 1: only the first sentence, cut to one
\* character, went to the engine.
C8_Witness ==
    /\ pc = "segment_done"
    /\ text = <<"a", ".", " ", "A", ".">>
    /\ config.max_line_length = 1 /\ config.max_lines = 1
    /\ splitCalls = << << <<"a", ".">>, <<"A", ".">> >> >>
    /\ handed = << <<"a">> >>
    /\ raised = None

\* The text without its leading and trailing white space has fewer than
\* three characters.
C9_Short ==
    \A i, j \in DOMAIN text :
        (~IsSpace(text[i]) /\ ~IsSpace(text[j])) => (j - i < 2 /\ i - j < 2)

\* C9: for a text whose trimmed length is below 3, translate_segment
\* returns the empty string, calls neither the splitter nor the engine and
\* raises nothing; for any other text it calls the splitter.
C9_ShortTextSkipped ==
    pc = "segment_done" =>
        IF C9_Short
        THEN /\ result = <<>>
             /\ splitCalls = <<>>
             /\ handed = <<>>
             /\ raised = None
        ELSE Len(splitCalls) = 1

\* C9 witness: a text of five characters, two of them ink, was skipped.
C9_Witness ==
    /\ pc = "segment_done"
    /\ text = <<" ", " ", "a", ".", " ">>
    /\ result = <<>>
    /\ splitCalls = <<>>

---------------------------------------------------------------------------
(* The JSON transcript: save_json_segments (transcribe_only.py) and
   load_segments (translate_only.py) *)

\* Characters that are not one printable ASCII character are named: the
\* double quote, the backslash, the line feed, and a non-ASCII letter.
DQ == "dquote"
BS == "backslash"
NL == "linefeed"
EAcute == "e-acute"

\* A time is a whole number of milliseconds; the program holds it as a float
\* of seconds.
DigitChars == <<"0", "1", "2", "3", "4", "5", "6", "7", "8", "9">>
IsDigit(c) == \E d \in DOMAIN DigitChars : DigitChars[d] = c
DigitVal(c) == (CHOOSE d \in DOMAIN DigitChars : DigitChars[d] = c) - 1

RECURSIVE NatDigits(_)
NatDigits(n) ==
    IF n < 10 THEN <<DigitChars[n + 1]>>
    ELSE NatDigits(n \div 10) \o <<DigitChars[(n % 10) + 1]>>

RECURSIVE DigitsVal(_)
DigitsVal(ds) ==
    IF ds = <<>> THEN 0
    ELSE 10 * DigitsVal(SubSeq(ds, 1, Len(ds) - 1)) + DigitVal(ds[Len(ds)])

RECURSIVE Flatten(_)
Flatten(seqs) == IF seqs = <<>> THEN <<>> ELSE Head(seqs) \o Flatten(Tail(seqs))

\* float.__repr__ of t / 1000: the integer part, a point, and the fraction
\* without trailing zeros (one digit at least).
FloatRepr(t) ==
    LET f == t % 1000
        frac == IF f = 0 THEN <<"0">>
                ELSE IF f % 100 = 0 THEN NatDigits(f \div 100)
                ELSE IF f % 10 = 0
                     THEN <<DigitChars[(f \div 100) + 1],
                            DigitChars[((f \div 10) % 10) + 1]>>
                     ELSE <<DigitChars[(f \div 100) + 1],
                            DigitChars[((f \div 10) % 10) + 1],
                            DigitChars[(f % 10) + 1]>>
    IN  NatDigits(t \div 1000) \o <<".">> \o frac

\* Mutant of EscapeChar: the double quote is written as it is.
EscapeCharQuoteRaw(c) ==
    IF c = BS THEN <<BS, BS>> ELSE IF c = NL THEN <<BS, "n">> ELSE <<c>>

\* json's string escapes with ensure_ascii=False: ", \ and the control
\* characters are escaped, every other character is written as it is.
EscapeChar(c) ==
    IF c = DQ THEN <<BS, DQ>>
    ELSE IF c = BS THEN <<BS, BS>>
    ELSE IF c = NL THEN <<BS, "n">>
    ELSE <<c>>

EncString(chars) ==
    <<DQ>> \o Flatten([i \in DOMAIN chars |-> EscapeChar(chars[i])]) \o <<DQ>>

\* indent=2: a line feed and two spaces per level
Indent(d) == <<NL>> \o [i \in 1..(2 * d) |-> " "]

\* A (start, end, text) tuple, written as an array at depth d.
EncTriple(seg, d) ==
    <<"[">> \o Indent(d + 1) \o FloatRepr(seg[1]) \o <<",">>
        \o Indent(d + 1) \o FloatRepr(seg[2]) \o <<",">>
        \o Indent(d + 1) \o EncString(seg[3])
        \o Indent(d) \o <<"]">>

EncSegments(segs, d) ==
    IF segs = <<>> THEN <<"[", "]">>
    ELSE <<"[">>
         \o Flatten([i \in DOMAIN segs |->
               (IF i = 1 THEN <<>> ELSE <<",">>)
                   \o Indent(d + 1) \o EncTriple(segs[i], d + 1)])
         \o Indent(d) \o <<"]">>

KeySegments == <<"s", "e", "g", "m", "e", "n", "t", "s">>
KeyLang == <<"l", "a", "n", "g">>

\* json.dump({"segments": segments, "lang": lang}, f, ensure_ascii=False,
\* indent=2): the characters written.
save_json_segments(segs, l) ==
    <<"{">> \o Indent(1) \o EncString(KeySegments) \o <<":", " ">>
        \o EncSegments(segs, 1) \o <<",">>
        \o Indent(1) \o EncString(KeyLang) \o <<":", " ">> \o EncString(l)
        \o Indent(0) \o <<"}">>

\* What json.load builds: strings, numbers, lists and dicts.
JStr(chars) == [t |-> "str", v |-> chars]
JNum(ms) == [t |-> "num", v |-> ms]
JArr(items) == [t |-> "list", v |-> items]
JObj(members) == [t |-> "dict", v |-> members]

Fail == [ok |-> FALSE, val |-> <<>>, next |-> 0]
Got(v, n) == [ok |-> TRUE, val |-> v, next |-> n]

RECURSIVE SkipWs(_, _)
SkipWs(f, i) ==
    IF i <= Len(f) /\ f[i] \in {" ", NL} THEN SkipWs(f, i + 1) ELSE i

\* The characters of a string, from position i (after the opening quote).
RECURSIVE ParseChars(_, _, _)
ParseChars(f, i, acc) ==
    IF i > Len(f) THEN Fail
    ELSE IF f[i] = DQ THEN Got(JStr(acc), i + 1)
    ELSE IF f[i] = NL THEN Fail
    ELSE IF f[i] = BS
         THEN IF i + 1 > Len(f) THEN Fail
              ELSE IF f[i + 1] = DQ THEN ParseChars(f, i + 2, Append(acc, DQ))
              ELSE IF f[i + 1] = BS THEN ParseChars(f, i + 2, Append(acc, BS))
              ELSE IF f[i + 1] = "n" THEN ParseChars(f, i + 2, Append(acc, NL))
              ELSE Fail
         ELSE ParseChars(f, i + 1, Append(acc, f[i]))

RECURSIVE ParseDigits(_, _, _)
ParseDigits(f, i, acc) ==
    IF i <= Len(f) /\ IsDigit(f[i])
    THEN ParseDigits(f, i + 1, Append(acc, f[i]))
    ELSE [digits |-> acc, next |-> i]

\* The milliseconds a fraction's digits stand for.
FracMs(ds) ==
    LET d(k) == IF k <= Len(ds) THEN DigitVal(ds[k]) ELSE 0
    IN  100 * d(1) + 10 * d(2) + d(3)

ParseNumber(f, i) ==
    LET ip == ParseDigits(f, i, <<>>)
    IN  IF ip.digits = <<>> THEN Fail
        ELSE IF ip.next <= Len(f) /\ f[ip.next] = "."
             THEN LET fp == ParseDigits(f, ip.next + 1, <<>>)
                  IN  IF fp.digits = <<>> \/ Len(fp.digits) > 3 THEN Fail
                      ELSE Got(JNum(1000 * DigitsVal(ip.digits)
                                        + FracMs(fp.digits)), fp.next)
             ELSE Got(JNum(1000 * DigitsVal(ip.digits)), ip.next)

RECURSIVE ParseValue(_, _), ParseArray(_, _, _), ParseObject(_, _, _)
ParseValue(f, i) ==
    LET j == SkipWs(f, i)
    IN  IF j > Len(f) THEN Fail
        ELSE IF f[j] = DQ THEN ParseChars(f, j + 1, <<>>)
        ELSE IF f[j] = "[" THEN ParseArray(f, j + 1, <<>>)
        ELSE IF f[j] = "{" THEN ParseObject(f, j + 1, <<>>)
        ELSE IF IsDigit(f[j]) THEN ParseNumber(f, j)
        ELSE Fail

\* The items of a list, from position i (after "[" or after a comma).
ParseArray(f, i, acc) ==
    LET j == SkipWs(f, i)
    IN  IF j > Len(f) THEN Fail
        ELSE IF f[j] = "]" /\ acc = <<>> THEN Got(JArr(<<>>), j + 1)
        ELSE LET item == ParseValue(f, j)
                 k == SkipWs(f, item.next)
             IN  IF ~item.ok \/ k > Len(f) THEN Fail
                 ELSE IF f[k] = ","
                      THEN ParseArray(f, k + 1, Append(acc, item.val))
                 ELSE IF f[k] = "]"
                      THEN Got(JArr(Append(acc, item.val)), k + 1)
                 ELSE Fail

\* The members of a dict, from position i (after "{" or after a comma).
ParseObject(f, i, acc) ==
    LET j == SkipWs(f, i)
    IN  IF j > Len(f) THEN Fail
        ELSE IF f[j] = "}" /\ acc = <<>> THEN Got(JObj(<<>>), j + 1)
        ELSE IF f[j] # DQ THEN Fail
        ELSE LET key == ParseChars(f, j + 1, <<>>)
                 c == SkipWs(f, key.next)
             IN  IF ~key.ok \/ c > Len(f) THEN Fail
                 ELSE IF f[c] # ":" THEN Fail
                 ELSE LET item == ParseValue(f, c + 1)
                          k == SkipWs(f, item.next)
                          member == <<key.val.v, item.val>>
                      IN  IF ~item.ok \/ k > Len(f) THEN Fail
                          ELSE IF f[k] = ","
                               THEN ParseObject(f, k + 1, Append(acc, member))
                          ELSE IF f[k] = "}"
                               THEN Got(JObj(Append(acc, member)), k + 1)
                          ELSE Fail

\* json.load: one value, then nothing but white space.
json_load(f) ==
    LET r == ParseValue(f, 1)
    IN  IF r.ok /\ SkipWs(f, r.next) > Len(f) THEN r ELSE Fail

HasKey(obj, key) == \E i \in DOMAIN obj.v : obj.v[i][1] = key
\* data[key]: the last member of that name
Lookup(obj, key) ==
    obj.v[SetMax({i \in DOMAIN obj.v : obj.v[i][1] = key})][2]

LoadError(e) == [err |-> e, segments |-> <<>>, lang |-> <<>>]

\* load_segments(json_file): the pair returned, or the error raised.
load_segments(file) ==
    IF ~file.exists THEN LoadError("FileNotFoundError")
    ELSE LET r == json_load(file.data)
         IN  IF ~r.ok THEN LoadError("JSONDecodeError")
             ELSE IF r.val.t # "dict" THEN LoadError("TypeError")
             ELSE IF ~HasKey(r.val, KeySegments) \/ ~HasKey(r.val, KeyLang)
                  THEN LoadError("KeyError")
             ELSE [err |-> None,
                   segments |-> Lookup(r.val, KeySegments),
                   lang |-> Lookup(r.val, KeyLang)]

\* The transcripts the model writes: up to MaxJsonSegs segments.
MaxJsonSegs == 2
JsonTimes == {<<0, 1050>>, <<1050, 1500>>, <<20000, 20001>>}
JsonTexts ==
    {<<>>, <<"a">>, <<DQ>>, <<BS, "n">>, <<NL, EAcute>>, <<"a", DQ, BS>>}
JsonSegments == {<<p[1], p[2], x>> : p \in JsonTimes, x \in JsonTexts}
JsonSegLists == UNION {[1..n -> JsonSegments] : n \in 0..MaxJsonSegs}
JsonLangs == {<<>>, <<"e", "n">>, <<DQ, BS>>}
\* What the file may hold before it is written: nothing, or text that is
\* not JSON.
JsonOldFiles == {NoFile, FileOf(<<"{">>)}

InitJson ==
    /\ config = [mode |-> Absent]
    /\ files = {}
    /\ dirOrder = <<>>
    /\ RunIdle
    /\ PipeIdle
    /\ SegIdle
    /\ segments \in JsonSegLists
    /\ lang \in JsonLangs
    /\ json_file \in JsonOldFiles
    /\ loaded = NotLoaded
    /\ OutIdle

\* save_json_segments(segments, lang, output_json)
SaveJsonCall ==
    /\ pc = "idle"
    /\ json_file' = FileOf(save_json_segments(segments, lang))
    /\ pc' = "saved"
    /\ UNCHANGED <<envVars, trace, raised, pipeVars, segVars, segments, lang,
                   loaded, outVars>>

\* load_segments(json_file), of the file as it is: from call to return or
\* raise.
LoadSegmentsCall ==
    /\ pc \in {"idle", "saved"}
    /\ loaded' = load_segments(json_file)
    /\ raised' = loaded'.err
    /\ pc' = IF pc = "saved" THEN "reloaded" ELSE "loaded"
    /\ UNCHANGED <<envVars, trace, pipeVars, segVars, segments, lang,
                   json_file, outVars>>

NextJson ==
    \/ SaveJsonCall
    \/ LoadSegmentsCall

SpecJson == InitJson /\ [][NextJson]_vars

---------------------------------------------------------------------------
(* Claims about the JSON transcript, checked under SpecJson *)

\* C10: load_segments of the file save_json_segments wrote raises nothing
\* and returns, in the same order, one three-item list per segment holding
\* the segment's start, end and text, and a language tag equal to the one
\* saved.
C10_JsonRoundTrip ==
    pc = "reloaded" =>
        /\ loaded.err = None
        /\ loaded.lang.t = "str" /\ loaded.lang.v = lang
        /\ loaded.segments.t = "list"
        /\ Len(loaded.segments.v) = Len(segments)
        /\ \A i \in DOMAIN segments :
              LET item == loaded.segments.v[i]
              IN  /\ item.t = "list" /\ Len(item.v) = 3
                  /\ item.v[1].t = "num" /\ item.v[1].v = segments[i][1]
                  /\ item.v[2].t = "num" /\ item.v[2].v = segments[i][2]
                  /\ item.v[3].t = "str" /\ item.v[3].v = segments[i][3]

\* C10 witness: a transcript of two segments whose texts need escaping and
\* whose times have fractions with leading and trailing zeros was read back.
C10_Witness ==
    /\ pc = "reloaded"
    /\ segments = << <<0, 1050, <<"a", DQ, BS>> >>, <<1050, 1500, <<BS, "n">> >> >>
    /\ lang = <<DQ, BS>>
    /\ loaded.err = None

---------------------------------------------------------------------------
(* The stages on their own: transcribe (transcribe_only.py) and translate
   (translate_only.py), each with its finally block *)

\* {n:02} and {n:03}: zero-padded to a width, never cut
Pad2(n) == IF n < 10 THEN <<"0">> \o NatDigits(n) ELSE NatDigits(n)
Pad3(n) ==
    IF n < 10 THEN <<"0", "0">> \o NatDigits(n)
    ELSE IF n < 100 THEN <<"0">> \o NatDigits(n)
    ELSE NatDigits(n)

\* The times below 2300 ms for which the double start * 1000 lies just
\* below the whole number of milliseconds, start being the double nearest
\* to t / 1000 (1.001 * 1000 = 1000.9999999999999).  For every other time
\* the model uses the product is the whole number itself.
RoundsDown ==
    {1001, 1003, 1005, 1007, 1009, 1011, 1013, 1015, 1017, 1019, 1021, 1023,
     2002, 2006, 2010, 2014, 2018, 2022, 2026, 2030, 2034, 2038, 2042, 2046}

\* int((start * 1000) % 1000)
SrtMillis(t) == IF t \in RoundsDown THEN (t - 1) % 1000 ELSE t % 1000

\* f"{int(t // 3600):02}:{int((t % 3600) // 60):02}:{int(t % 60):02},{ms:03}"
SrtTime(t) ==
    Pad2(t \div 3600000) \o <<":">> \o Pad2((t % 3600000) \div 60000)
        \o <<":">> \o Pad2((t % 60000) \div 1000)
        \o <<",">> \o Pad3(SrtMillis(t))

\* One entry of an SRT file: f"{idx}\n{start} --> {end}\n{text}\n\n"
SrtEntry(idx, seg) ==
    [idx |-> NatDigits(idx), start |-> SrtTime(seg[1]),
     end |-> SrtTime(seg[2]), text |-> seg[3]]

\* save_srt_segments: for idx, (start, end, text) in enumerate(segments, 1)
\* (the same function in transcribe_only.py and translate_only.py)
save_srt_segments(segs) == [i \in DOMAIN segs |-> SrtEntry(i, segs[i])]

\* save_txt_segments: f.write(text + "\n") per segment
save_txt_segments(segs) == Flatten([i \in DOMAIN segs |-> segs[i][3] \o <<NL>>])

\* language_code_map is a list of (key, value) pairs; dict.get(k, d)
MapGet(m, k, d) ==
    IF \E i \in DOMAIN m : m[i][1] = k
    THEN m[CHOOSE i \in DOMAIN m : m[i][1] = k][2]
    ELSE d

\* x or d, for strings
Or(x, d) == IF x = <<>> THEN d ELSE x

EngLatn == <<"e", "n", "g", "_", "L", "a", "t", "n">>
TurLatn == <<"t", "u", "r", "_", "L", "a", "t", "n">>

\* Mutant of SourceLang: without the fallback.
SourceLangNoFallback(l) == MapGet(config.language_code_map, l, l)

\* language_code_map.get(source_lang, source_lang) or "eng_Latn"
SourceLang(l) == Or(MapGet(config.language_code_map, l, l), EngLatn)

\* Mutant of cleanup_gpu: the failure of the cleanup leaves the function.
cleanup_gpu_unguarded(fails) ==
    [event |-> Event("cleanup", "gpu", IF fails THEN "Exception" ELSE None),
     raised |-> IF fails THEN "Exception" ELSE None]

\* cleanup_gpu(): gc.collect and torch.cuda.empty_cache inside try / except
\* Exception, which logs a warning.  Nothing is raised.
cleanup_gpu(fails) ==
    [event |-> Event("cleanup", "gpu", IF fails THEN "warning" ELSE None),
     raised |-> None]

\* Mutant of AppendSegment: the new segment is put in front.
AppendSegmentFront(out, seg, t) == << <<seg[1], seg[2], t>> >> \o out

\* translated_segments.append((start, end, translated_text))
AppendSegment(out, seg, t) == Append(out, <<seg[1], seg[2], t>>)

\* The transcripts the stages are run on: up to MaxSegs segments.
MaxSegs == 2
StageSpans == {<<0, 1001>>, <<1001, 1500>>, <<1500, 0>>}
StageTexts == {<<>>, <<" ", "a", ".">>, <<"a", ".", " ", "A">>}
StageSegments == {<<p[1], p[2], x>> : p \in StageSpans, x \in StageTexts}
StageSegLists == UNION {[1..n -> StageSegments] : n \in 0..MaxSegs}
StageLangs == {<<>>, <<"e", "n">>, TurLatn}
StageMaps ==
    {<< <<(<<"e", "n">>), EngLatn>>, <<(<<"t", "r">>), TurLatn>> >>,
     << <<(<<"e", "n">>), <<>> >> >>}
StageConfigs ==
    {[max_line_length |-> MaxLineLength, max_lines |-> MaxLines,
      use_regex_splitter |-> b, language_code_map |-> m] :
        b \in BOOLEAN, m \in StageMaps}

InitStage ==
    /\ config \in StageConfigs
    /\ files = {}
    /\ dirOrder = <<>>
    /\ RunIdle
    /\ PipeIdle
    /\ SegIdle
    /\ segments \in StageSegLists
    /\ lang \in StageLangs
    /\ json_file = NoFile
    /\ loaded = NotLoaded
    /\ OutIdle

\* The exception leaves the try block: control goes to the finally block.
LeaveBody(stage, err) ==
    /\ pending' = err
    /\ pc' = IF stage = "translate" THEN "translate_finally"
             ELSE "transcribe_finally"

\* transcribe(audio_file, output_json, output_srt), up to the finally block:
\* the engine yields `segments` and detects `lang`.  The model may fail to
\* load or to read the audio, and either file may fail to be written.
TranscribeCall ==
    /\ pc = "idle"
    /\ trace' = Append(trace, Event("call", "transcribe", None))
    /\ LET transcription_segments ==
               [i \in DOMAIN segments |->
                   <<segments[i][1], segments[i][2], Strip(segments[i][3])>>]
           nllb_lang == MapGet(config.language_code_map, lang, lang)
           json == FileOf(save_json_segments(transcription_segments, nllb_lang))
           srt == FileOf(save_srt_segments(transcription_segments))
       IN  \/ /\ json_file' = json
              /\ srt_file' = srt
              /\ LeaveBody("transcribe", None)
           \/ /\ \E e \in {"FileNotFoundError", "Exception"} :
                    LeaveBody("transcribe", e)
              /\ UNCHANGED <<json_file, srt_file>>
           \/ /\ json_file' = json
              /\ LeaveBody("transcribe", "Exception")
              /\ UNCHANGED srt_file
    /\ UNCHANGED <<envVars, raised, pipeVars, segVars, segments, lang, loaded,
                   translated, txt_file, src_lang>>

\* translate(segments, source_lang, ...), up to the loop: the language is
\* mapped, then the tokenizer and the model are loaded, which may fail.
TranslateCall ==
    /\ pc = "idle"
    /\ trace' = Append(trace, Event("call", "translate", None))
    /\ src_lang' = SourceLang(lang)
    /\ translated' = <<>>
    /\ \/ pc' = "translate_loop" /\ UNCHANGED pending
       \/ LeaveBody("translate", "Exception")
    /\ UNCHANGED <<envVars, raised, pipeVars, segVars, dataVars, srt_file,
                   txt_file>>

\* One turn of the loop over segments: translate_segment on the next one.
TranslateNext ==
    /\ pc = "translate_loop"
    /\ Len(translated) < Len(segments)
    /\ LET seg == segments[Len(translated) + 1]
       IN  \E sp \in split_sentences(seg[3]), failAt \in 0..MaxLines :
              LET r == translate_segment(seg[3], sp, failAt)
              IN  IF r.out = "ok"
                  THEN /\ translated' = AppendSegment(translated, seg, r.result)
                       /\ UNCHANGED <<pc, pending>>
                  ELSE /\ LeaveBody("translate", r.out)
                       /\ UNCHANGED translated
    /\ UNCHANGED <<envVars, trace, raised, pipeVars, segVars, dataVars,
                   srt_file, txt_file, src_lang>>

\* sent_tokenize raises LookupError when its data is not installed;
\* split_sentences logs and re-raises it.
TranslateSplitFails ==
    /\ pc = "translate_loop"
    /\ Len(translated) < Len(segments)
    /\ ~config.use_regex_splitter
    /\ translate_segment(segments[Len(translated) + 1][3], <<>>, 0).splits # <<>>
    /\ LeaveBody("translate", "LookupError")
    /\ UNCHANGED <<envVars, trace, raised, pipeVars, segVars, dataVars,
                   translated, srt_file, txt_file, src_lang>>

\* After the loop: save_srt_segments, then save_txt_segments; either may
\* fail to write.
TranslateSave ==
    /\ pc = "translate_loop"
    /\ Len(translated) = Len(segments)
    /\ \/ /\ srt_file' = FileOf(save_srt_segments(translated))
          /\ txt_file' = FileOf(save_txt_segments(translated))
          /\ LeaveBody("translate", None)
       \/ /\ LeaveBody("translate", "Exception")
          /\ UNCHANGED <<srt_file, txt_file>>
       \/ /\ srt_file' = FileOf(save_srt_segments(translated))
          /\ LeaveBody("translate", "Exception")
          /\ UNCHANGED txt_file
    /\ UNCHANGED <<envVars, trace, raised, pipeVars, segVars, dataVars,
                   translated, src_lang>>

\* finally: cleanup_gpu().  Then the function returns, or the exception in
\* flight goes on to the caller; an exception raised inside a finally block
\* would replace it.
CleanupGpu ==
    /\ pc \in {"transcribe_finally", "translate_finally"}
    /\ \E fails \in BOOLEAN :
          LET c == cleanup_gpu(fails)
          IN  /\ trace' = Append(trace, c.event)
              /\ raised' = IF c.raised # None THEN c.raised ELSE pending
    /\ pc' = IF pc = "translate_finally" THEN "translate_done"
             ELSE "transcribe_done"
    /\ UNCHANGED <<envVars, pipeVars, textVars>>

NextStage ==
    \/ TranscribeCall
    \/ TranslateCall
    \/ TranslateNext
    \/ TranslateSplitFails
    \/ TranslateSave
    \/ CleanupGpu

SpecStage == InitStage /\ [][NextStage]_vars

---------------------------------------------------------------------------
(* Claims about the stages, checked under SpecStage *)

\* C5: when transcribe or translate has returned to its caller, by a normal
\* return or by an exception, cleanup_gpu has run once, after the body, and
\* what leaves the function is what left the body (nothing, or the body's
\* exception), whether the cleanup itself failed or not.
C5_CleanupOnEveryExit ==
    pc \in {"transcribe_done", "translate_done"} =>
        /\ Len(trace) = 2
        /\ trace[1][1] = "call"
        /\ trace[2][1] = "cleanup"
        /\ raised = pending

\* C5 witness: translate's body failed, the cleanup failed as well, and the
\* function was left.
C5_Witness ==
    /\ pc = "translate_done"
    /\ pending = "Exception"
    /\ trace[2] = Event("cleanup", "gpu", "warning")

\* The lines of a text file: what stands before each line feed.
RECURSIVE Lines(_, _)
Lines(chars, line) ==
    IF chars = <<>> THEN <<>>
    ELSE IF Head(chars) = NL THEN <<line>> \o Lines(Tail(chars), <<>>)
    ELSE Lines(Tail(chars), Append(line, Head(chars)))

\* What translate_segment can return for a text.
Translations(t) ==
    {translate_segment(t, sp, 0).result : sp \in split_sentences(t)}

\* C7: translate's output list follows the input list: at every moment the
\* k segments translated so far are the first k input segments with their
\* start and end and a text translate_segment returns for the input text;
\* once translate has returned normally there is one output segment per
\* input segment, the i-th SRT entry is numbered i and carries the i-th
\* input segment's start and end and the i-th translated text, and the i-th
\* line of the text file is the i-th translated text.
C7_TranslatePreserves ==
    /\ Len(translated) <= Len(segments)
    /\ \A i \in DOMAIN translated :
          /\ translated[i][1] = segments[i][1]
          /\ translated[i][2] = segments[i][2]
          /\ translated[i][3] \in Translations(segments[i][3])
    /\ (pc = "translate_done" /\ raised = None) =>
          /\ Len(translated) = Len(segments)
          /\ srt_file.exists /\ txt_file.exists
          /\ Len(srt_file.data) = Len(segments)
          /\ Lines(txt_file.data, <<>>) = [i \in DOMAIN segments |-> translated[i][3]]
          /\ \A i \in DOMAIN segments :
                /\ srt_file.data[i].idx = NatDigits(i)
                /\ srt_file.data[i].start = SrtTime(segments[i][1])
                /\ srt_file.data[i].end = SrtTime(segments[i][2])
                /\ srt_file.data[i].text = translated[i][3]

\* C7 witness: two segments with different times were translated and
\* written, the first to a text of its own, the second (too short) to the
\* empty text.
C7_Witness ==
    /\ pc = "translate_done"
    /\ raised = None
    /\ segments = << <<1001, 1500, <<"a", ".", " ", "A">> >>,
                     <<0, 1001, <<" ", "a", ".">> >> >>
    /\ translated[1][3] # <<>>
    /\ translated[2][3] = <<>>

---------------------------------------------------------------------------
(* save_srt_segments on its own *)

\* The times save_srt_segments is run on: every millisecond up to MaxMillis,
\* and some long ones (3725.4 s, the last millisecond of a minute and of an
\* hour, one hour, a hundred hours).
MaxMillis == 1100
SrtLongTimes == {59999, 60000, 3599999, 3600000, 3725400, 360000000}
SrtTimes == (0..MaxMillis) \cup SrtLongTimes
SrtEnds == {0, 1023, 3725400}
SrtSegLists ==
    {<< <<t, e, <<"a">> >> >> : t \in SrtTimes, e \in SrtEnds}
        \cup StageSegLists

InitSrt ==
    /\ config = [mode |-> Absent]
    /\ files = {}
    /\ dirOrder = <<>>
    /\ RunIdle
    /\ PipeIdle
    /\ SegIdle
    /\ segments \in SrtSegLists
    /\ lang = <<>>
    /\ json_file = NoFile
    /\ loaded = NotLoaded
    /\ OutIdle

\* save_srt_segments(segments, output_srt), from call to return or raise:
\* every entry is written, or the directory or the file cannot be made.
SaveSrtCall ==
    /\ pc = "idle"
    /\ \/ /\ srt_file' = FileOf(save_srt_segments(segments))
          /\ raised' = None
       \/ /\ raised' = "Exception"
          /\ UNCHANGED srt_file
    /\ pc' = "srt_saved"
    /\ UNCHANGED <<envVars, trace, pipeVars, segVars, dataVars, translated,
                   txt_file, pending, src_lang>>

NextSrt == SaveSrtCall

SpecSrt == InitSrt /\ [][NextSrt]_vars

---------------------------------------------------------------------------
(* Claims about save_srt_segments, checked under SpecSrt *)

\* HH:MM:SS,mmm of a time of t milliseconds, by whole-number arithmetic.
ExactStamp(t) ==
    Pad2(t \div 3600000) \o <<":">> \o Pad2((t \div 60000) % 60)
        \o <<":">> \o Pad2((t \div 1000) % 60)
        \o <<",">> \o Pad3(t % 1000)

\* C11: every timestamp save_srt_segments has written is HH:MM:SS,mmm of its
\* time: whole hours, the remaining whole minutes, the remaining whole
\* seconds and the remaining milliseconds, each zero-padded; 3725.4 s is
\* written 01:02:05,400.
C11_SrtTimestamp ==
    /\ ExactStamp(3725400)
          = <<"0", "1", ":", "0", "2", ":", "0", "5", ",", "4", "0", "0">>
    /\ (pc = "srt_saved" /\ raised = None) =>
          \A i \in DOMAIN segments :
              /\ srt_file.data[i].start = ExactStamp(segments[i][1])
              /\ srt_file.data[i].end = ExactStamp(segments[i][2])

\* Timestamp a is earlier than timestamp b: shorter (fewer hour digits), or
\* of the same length and smaller at the first digit where they differ.
CharRank(c) == IF IsDigit(c) THEN DigitVal(c) ELSE 0
Earlier(a, b) ==
    \/ Len(a) < Len(b)
    \/ /\ Len(a) = Len(b)
       /\ \E k \in DOMAIN a :
             /\ CharRank(a[k]) < CharRank(b[k])
             /\ \A j \in 1..(k - 1) : a[j] = b[j]

\* C12: when save_srt_segments is given a segment whose end is before its
\* start it raises an error, and no entry of the file it has written has an
\* end timestamp earlier than its start timestamp.
C12_EndBeforeStartRejected ==
    pc = "srt_saved" =>
        /\ (\E i \in DOMAIN segments : segments[i][2] < segments[i][1])
              => raised # None
        /\ \A i \in DOMAIN srt_file.data :
              ~Earlier(srt_file.data[i].end, srt_file.data[i].start)

\* The transcript's language tag has an entry in language_code_map.
C13_Mapped == \E i \in DOMAIN config.language_code_map :
                  config.language_code_map[i][1] = lang
C13_MapValue == MapGet(config.language_code_map, lang, <<>>)
C13_InTranslate == trace # <<>> /\ trace[1] = Event("call", "translate", None)

\* C13 as claimed: in translate the source language is the map's value for
\* the transcript's tag when the tag is mapped, and eng_Latn when the tag is
\* empty or has no entry in the map.
C13_FallbackWhenUnmapped ==
    C13_InTranslate =>
        src_lang = IF C13_Mapped THEN C13_MapValue ELSE EngLatn

\* C13 as amended: in translate the source language is the map's value for
\* the transcript's tag when the tag is mapped to a non-empty value, the tag
\* itself when it is not empty and has no entry in the map, and eng_Latn
\* otherwise (the tag is empty and unmapped, or is mapped to the empty
\* string).
C13_SourceLanguage ==
    C13_InTranslate =>
        src_lang = IF C13_Mapped /\ C13_MapValue # <<>> THEN C13_MapValue
                   ELSE IF ~C13_Mapped /\ lang # <<>> THEN lang
                   ELSE EngLatn

\* C13 witness: a transcript tagged tur_Latn, which is no key of the map,
\* reached the translation loop with tur_Latn as its source language.
C13_Witness ==
    /\ pc = "translate_loop"
    /\ lang = TurLatn
    /\ ~C13_Mapped
    /\ src_lang = TurLatn

---------------------------------------------------------------------------
(* Further claims about run_pipeline, checked under Spec *)

\* There is a video to resolve: the explicit path exists, or, when none is
\* given, the video directory lists an MP4 file.
C14_Resolvable ==
    IF video_arg.name \notin {None, ""}
    THEN video_arg.name \in files
    ELSE \E i \in DOMAIN dirOrder : IsMp4(dirOrder[i])

\* C14: whatever steps are requested, a stage is invoked only after the
\* video was resolved to an existing file, and when no video can be resolved
\* run_pipeline invokes no stage, prints no success message and raises
\* FileNotFoundError.
C14_VideoResolvedFirst ==
    /\ trace # <<>> =>
          /\ C14_Resolvable
          /\ video_file.abs /\ video_file.name \in files
    /\ (pc \notin {"idle", "select"} /\ ~C14_Resolvable) =>
          /\ trace = <<>>
          /\ pc = "raised" /\ raised = "FileNotFoundError"
          /\ ~printed

\* C14 witness: only translate was requested, which never reads the video;
\* the directory is empty and the run has failed without invoking it.
C14_Witness ==
    /\ steps = <<"translate">>
    /\ dirOrder = <<>>
    /\ video_arg = NoPath
    /\ pc = "raised"
    /\ raised = "FileNotFoundError"
    /\ trace = <<>>

\* The resolved mode is neither 'soft' nor 'burned'.
C15_InvalidMode ==
    LET m == IF mode \notin {None, ""} THEN mode
             ELSE IF config.mode = Absent THEN "burned" ELSE config.mode
    IN  m \notin {"soft", "burned"}

\* C15: with an invalid mode, run_pipeline fails only through a stage (or
\* for want of a video); the subtitles stage is invoked only when requested
\* and then fails with ValueError, calling no embedder, after every other
\* requested stage has begun and returned; a run without 'subtitles' never
\* sees the subtitles stage fail.
C15_ModeValidatedInStage ==
    (C15_InvalidMode /\ pc \notin {"idle", "select"}) =>
        /\ pc = "raised" =>
              \/ trace = <<>> /\ raised = "FileNotFoundError"
              \/ Fails # {}
        /\ Begins("subtitles") # {} =>
              /\ "subtitles" \in Requested
              /\ trace[Len(trace)] = <<"fail", "subtitles", "ValueError">>
              /\ raised = "ValueError"
              /\ Embeds("soft") = {} /\ Embeds("burned") = {}
              /\ \A stage \in Requested \ {"subtitles"} :
                    \E b \in Begins(stage) : \E e \in Ends(stage) :
                       \E f \in Begins("subtitles") : b < e /\ e < f
        /\ "subtitles" \notin Requested =>
              \A i \in Fails : trace[i][2] # "subtitles"

\* C15 witness: with the override 'bogus', extract and translate ran to
\* completion before the subtitles stage raised ValueError.
C15_Witness ==
    /\ mode = "bogus"
    /\ Requested = {"extract", "translate", "subtitles"}
    /\ Ends("extract") # {} /\ Ends("translate") # {}
    /\ trace[Len(trace)] = <<"fail", "subtitles", "ValueError">>
    /\ pc = "raised" /\ raised = "ValueError"

\* Every requested recognised stage was invoked and returned without error.
C16_AllReturned ==
    /\ Fails = {}
    /\ \A stage \in Requested :
          \E b \in Begins(stage) : \E e \in Ends(stage) : b < e

=============================================================================
